---- MODULE Spec2Model ----
(***************************************************************************)
(* Model of backend/server.js: the weather gateway's request handlers      *)
(* (POST /api/weather, PUT and DELETE /api/queries/:id), the upstream      *)
(* calls they await, and the weather_queries table they write.             *)
(***************************************************************************)
EXTENDS Integers, Sequences, FiniteSets, Bags, TLC

-----------------------------------------------------------------------------
(* Bounds of the model. *)

\* Number of requests the server handles concurrently.
MaxInflight == 2
\* Cap on the AUTOINCREMENT counter: POSTs are accepted while ids remain.
MaxId == 2
\* Last day of the wall clock (days are counted from 2024-01-01 = day 1).
MaxNow == 2

-----------------------------------------------------------------------------
(* JavaScript values of the request body: undefined, null, number, string. *)

Undefined == [t |-> "undefined", n |-> 0, s |-> ""]
Null == [t |-> "null", n |-> 0, s |-> ""]
Num(k) == [t |-> "number", n |-> k, s |-> ""]
Str(x) == [t |-> "string", n |-> 0, s |-> x]

\* ToBoolean: what `!v`, `v && w` and `v || w` test.
Truthy(v) ==
    CASE v.t = "undefined" -> FALSE
      [] v.t = "null" -> FALSE
      [] v.t = "number" -> v.n # 0
      [] v.t = "string" -> v.s # ""

\* Number::toString for the numbers the requests carry.
NumStr(k) ==
    CASE k = 0 -> "0"
      [] k = 2 -> "2"
      [] k = 48 -> "48"
      [] OTHER -> "NaN"

\* ToString, as a template literal `${v}` applies it.
ToStr(v) ==
    CASE v.t = "undefined" -> "undefined"
      [] v.t = "null" -> "null"
      [] v.t = "number" -> NumStr(v.n)
      [] v.t = "string" -> v.s

\* encodeURIComponent(String(v)) on the texts the requests carry.
EncodeURIComponent(v) ==
    CASE ToStr(v) = "New York" -> "New%20York"
      [] ToStr(v) = "a&b" -> "a%26b"
      [] OTHER -> ToStr(v)

\* `v || null` of the INSERT and UPDATE parameters.
OrNull(v) == IF Truthy(v) THEN v ELSE Null

-----------------------------------------------------------------------------
(* validateDateRange *)

NaN == [nan |-> TRUE, time |-> 0]
Time(d) == [nan |-> FALSE, time |-> d]

\* new Date(v).getTime(), in days since 2023-12-31, for the date texts used.
DateParse(v) ==
    CASE v.t = "string" /\ v.s = "2024-01-01" -> Time(1)
      [] v.t = "string" /\ v.s = "2024-01-02" -> Time(2)
      [] v.t = "string" /\ v.s = "2024-01-03" -> Time(3)
      [] v.t = "string" /\ v.s = "2024-01-04" -> Time(4)
      [] OTHER -> NaN

Valid == [valid |-> TRUE, error |-> ""]
Invalid(msg) == [valid |-> FALSE, error |-> msg]

ValidateDateRange(dateFrom, dateTo, now) ==
    LET from == DateParse(dateFrom)
        to == DateParse(dateTo)
    IN  IF ~Truthy(dateFrom) \/ ~Truthy(dateTo)
            THEN Invalid("Both dates are required")
        ELSE IF from.nan \/ to.nan THEN Invalid("Invalid date format")
        ELSE IF from.time > to.time
            THEN Invalid("Start date must be before end date")
        ELSE IF to.time > now
            THEN Invalid("End date cannot be in the future")
        ELSE Valid

-----------------------------------------------------------------------------
(* buildWeatherUrl and the geocoding URLs *)

WeatherBase == "https://api.openweathermap.org/data/2.5/"
GeoBase == "https://api.openweathermap.org/geo/1.0/"
UrlTail == "&appid=KEY&units=metric"

CoordQuery(lat, lon) == "lat=" \o ToStr(lat) \o "&lon=" \o ToStr(lon)

Urls(query) ==
    [current |-> WeatherBase \o "weather?" \o query \o UrlTail,
     forecast |-> WeatherBase \o "forecast?" \o query \o UrlTail]

BuildWeatherUrl(location, lat, lon, type) ==
    IF Truthy(lat) /\ Truthy(lon) THEN Urls(CoordQuery(lat, lon))
    ELSE IF type = Str("zip") THEN Urls("zip=" \o ToStr(location))
    ELSE Urls("q=" \o EncodeURIComponent(location))

DirectUrl(location) ==
    GeoBase \o "direct?q=" \o EncodeURIComponent(location) \o "&limit=1&appid=KEY"

ReverseUrl(lat, lon) ==
    GeoBase \o "reverse?" \o CoordQuery(lat, lon) \o "&limit=1&appid=KEY"

-----------------------------------------------------------------------------
(* What the upstream providers answer. *)

\* A place of the geocoding provider's result list (state "" when it has none).
GeoPlaces ==
    {[name |-> "New York", state |-> "NY", country |-> "US", lat |-> "40.71", lon |-> "-74"],
     [name |-> "Paris", state |-> "", country |-> "FR", lat |-> "48.85", lon |-> "2.35"]}

\* A geocoding call resolves with a result list (of one place or empty) or rejects.
GeoOutcomes ==
    {[kind |-> "places", place |-> p] : p \in GeoPlaces}
        \cup {[kind |-> "empty"], [kind |-> "rejected"]}

\* Current-conditions payloads: the other fields as JSON text, coord (or none)
\* and timezone (JSON number text, "" when the payload has none).
CurrentPayloads ==
    {[rest |-> "\"main\":{\"temp\":20}", hasCoord |-> TRUE, lat |-> "40.71", lon |-> "-74",
      timezone |-> "-18000"],
     [rest |-> "\"main\":{\"temp\":5}", hasCoord |-> FALSE, lat |-> "", lon |-> "",
      timezone |-> "0"]}

ForecastPayloads == {"{\"cnt\":40}"}

\* What axios rejects with: err.response (with or without data), or no response.
NoErr == [rejected |-> FALSE]
Rejections ==
    {[rejected |-> TRUE, response |-> TRUE, data |-> TRUE, status |-> 401,
      message |-> "Invalid API key"],
     [rejected |-> TRUE, response |-> TRUE, data |-> TRUE, status |-> 400,
      message |-> "Nothing to geocode"],
     [rejected |-> TRUE, response |-> TRUE, data |-> FALSE, status |-> 502,
      message |-> ""],
     [rejected |-> TRUE, response |-> FALSE, data |-> FALSE, status |-> 0,
      message |-> ""]}

\* Promise.all of the two weather calls: both payloads, or the first rejection
\* and the call it came from.
WeatherOutcomes ==
    {[ok |-> TRUE, current |-> c, forecast |-> f] :
        c \in CurrentPayloads, f \in ForecastPayloads}
      \cup {[ok |-> FALSE, err |-> e, by |-> b] :
              e \in Rejections, b \in {"current", "forecast"}}

-----------------------------------------------------------------------------
(* enhancedLocationInfo and JSON.stringify(weatherData) *)

NoInfo == [present |-> FALSE]

FullName(place) ==
    place.name \o (IF place.state # "" THEN ", " \o place.state ELSE "")
        \o ", " \o place.country

\* getCoordinatesFromLocation: place.lat and place.lon are the provider's.
ForwardInfo(outcome) ==
    IF outcome.kind = "places"
        THEN [present |-> TRUE, lat |-> outcome.place.lat, lon |-> outcome.place.lon,
              name |-> outcome.place.name, country |-> outcome.place.country,
              state |-> outcome.place.state, fullName |-> FullName(outcome.place)]
        ELSE NoInfo

\* getLocationFromCoordinates: lat and lon are parseFloat of the request's.
ReverseInfo(lat, lon, outcome) ==
    IF outcome.kind = "places"
        THEN [present |-> TRUE, lat |-> ToStr(lat), lon |-> ToStr(lon),
              name |-> outcome.place.name, country |-> outcome.place.country,
              state |-> outcome.place.state, fullName |-> FullName(outcome.place)]
        ELSE NoInfo

Quote(x) == "\"" \o x \o "\""

InfoJson(info) ==
    "{\"lat\":" \o info.lat \o ",\"lon\":" \o info.lon
        \o ",\"name\":" \o Quote(info.name) \o ",\"country\":" \o Quote(info.country)
        \o ",\"state\":" \o (IF info.state # "" THEN Quote(info.state) ELSE "null")
        \o ",\"fullName\":" \o Quote(info.fullName) \o "}"

\* The upstream payload as the handler received it.
PayloadJson(p) ==
    p.rest
        \o (IF p.hasCoord
              THEN ",\"coord\":{\"lon\":" \o p.lon \o ",\"lat\":" \o p.lat \o "}"
              ELSE "")
        \o (IF p.timezone # "" THEN ",\"timezone\":" \o p.timezone ELSE "")

\* weatherData.current after lines 204-206: coordinates, enhancedLocation and
\* displayName, timezoneOffset (timezone 0 is falsy).
AugmentedJson(p, info) ==
    "{" \o PayloadJson(p)
        \o (IF p.hasCoord
              THEN ",\"coordinates\":{\"lat\":" \o p.lat \o ",\"lon\":" \o p.lon \o "}"
              ELSE "")
        \o (IF info.present
              THEN ",\"enhancedLocation\":" \o InfoJson(info)
                     \o ",\"displayName\":" \o Quote(info.fullName)
              ELSE "")
        \o (IF p.timezone # "" /\ p.timezone # "0"
              THEN ",\"timezoneOffset\":" \o p.timezone
              ELSE "")
        \o "}"

\* `location || lat,lon`
SearchedLocation(location, lat, lon) ==
    IF Truthy(location) THEN ToStr(location) ELSE ToStr(lat) \o "," \o ToStr(lon)

\* JSON.stringify of the POST handler's weatherData.
PostJson(outcome, info, searched) ==
    "{\"current\":" \o AugmentedJson(outcome.current, info)
        \o ",\"forecast\":" \o outcome.forecast
        \o ",\"searchedLocation\":" \o Quote(searched) \o "}"

\* JSON.stringify of the PUT handler's weatherData.
PutJson(outcome) ==
    "{\"current\":{" \o PayloadJson(outcome.current) \o "}"
        \o ",\"forecast\":" \o outcome.forecast \o "}"

-----------------------------------------------------------------------------
(* State *)

VARIABLES
    rows,       \* the weather_queries table: a set of rows
    nextId,     \* the id AUTOINCREMENT gives the next inserted row
    inserts,    \* INSERT statements handed to db.run and not yet executed
    inflight,   \* the handler invocations in progress (a bag), with their responses
    now         \* the wall clock, in days

vars == <<rows, nextId, inserts, inflight, now>>

Ids == 1..MaxId

Body(location, lat, lon, type, dateFrom, dateTo) ==
    [location |-> location, lat |-> lat, lon |-> lon, type |-> type,
     dateFrom |-> dateFrom, dateTo |-> dateTo]

NoBody == Body(Undefined, Undefined, Undefined, Undefined, Undefined, Undefined)
NoUrls == [current |-> "", forecast |-> ""]
NoResp == [status |-> 0, error |-> "", message |-> "", data |-> ""]

\* A handler invocation as it is entered: nothing awaited, issued or answered.
Entered(kind, id, body) ==
    [kind |-> kind, pc |-> "entered", id |-> id, body |-> body, geo |-> "none",
     info |-> NoInfo,
     urls |-> NoUrls, calls |-> {}, sql |-> "", data |-> "", err |-> NoErr,
     resp |-> NoResp]

\* res.status(status).json({ error })
ErrorResp(status, error) ==
    [status |-> status, error |-> error, message |-> "", data |-> ""]

\* res.json(weatherData) and res.json({ message, weatherData })
OkResp(message, data) ==
    [status |-> 200, error |-> "", message |-> message, data |-> data]

Row(id, location, dateFrom, dateTo, data, created) ==
    [id |-> id, location |-> location, date_from |-> dateFrom, date_to |-> dateTo,
     weather_data |-> data, created_at |-> created]

Init ==
    /\ rows = {}
    /\ nextId = 1
    /\ inserts = <<>>
    /\ inflight = EmptyBag
    /\ now = 1

Requests == BagToSet(inflight)

\* A response, once written, is on its way to the client before the event loop
\* runs anything else: no invocation resumes while an answer is being sent.
Quiet == \A r \in Requests : r.pc # "done"

\* A request arrives and its handler runs to its first await or to its answer.
Admit(r) ==
    /\ Quiet
    /\ BagCardinality(inflight) < MaxInflight
    /\ inflight' = inflight (+) SetToBag({r})

\* The invocation r resumes and runs to its next await or to its answer.
Resume(r, r2) ==
    /\ Quiet
    /\ inflight' = (inflight (-) SetToBag({r})) (+) SetToBag({r2})

\* The number of POSTs whose INSERT is still to come.
PostsInFlight ==
    LET S == {r \in Requests : r.kind = "post" /\ r.pc \in {"geo", "weather"}}
    IN  BagCardinality([r \in S |-> inflight[r]])

-----------------------------------------------------------------------------
(* POST /api/weather *)

\* MissingWhere with `&&` for `||`: one coordinate alone is let through.
MutMissingWhere(body) ==
    ~Truthy(body.location) /\ (body.lat = Undefined /\ body.lon = Undefined)

\* Line 196: neither a location nor both coordinates.
MissingWhere(body) ==
    ~Truthy(body.location) /\ (body.lat = Undefined \/ body.lon = Undefined)

\* Lines 197 and 301: the range is validated when both dates are truthy.
DateCheck(body, clock) ==
    IF Truthy(body.dateFrom) /\ Truthy(body.dateTo)
        THEN ValidateDateRange(body.dateFrom, body.dateTo, clock)
        ELSE Valid

\* Lines 199-200: which geocoding call, if any, the handler awaits.
GeoCall(body) ==
    IF Truthy(body.location) /\ ~Truthy(body.lat) /\ ~Truthy(body.lon)
        THEN "direct"
    ELSE IF Truthy(body.lat) /\ Truthy(body.lon) /\ ~Truthy(body.location)
        THEN "reverse"
    ELSE "none"

GeoUrl(body) ==
    IF GeoCall(body) = "direct" THEN DirectUrl(body.location)
    ELSE ReverseUrl(body.lat, body.lon)

\* Lines 201-202 and 302-303: build the URLs and issue the two weather calls.
IssueWeather(r) ==
    LET b == r.body
        urls == BuildWeatherUrl(b.location, b.lat, b.lon, b.type)
    IN  [r EXCEPT !.pc = "weather", !.urls = urls,
                  !.calls = @ \cup {urls.current, urls.forecast}]

\* PostEnter with the range validated only after the first calls are issued.
MutPostEnter(body, clock) ==
    LET r == Entered("post", 0, body)
        check == DateCheck(body, clock)
    IN  IF MissingWhere(body)
            THEN [r EXCEPT !.pc = "done",
                           !.resp = ErrorResp(400, "Location or coordinates required.")]
        ELSE IF ~check.valid
            THEN [r EXCEPT !.pc = "done", !.resp = ErrorResp(400, check.error),
                           !.calls = IssueWeather(r).calls]
        ELSE IF GeoCall(body) # "none"
            THEN [r EXCEPT !.pc = "geo", !.calls = {GeoUrl(body)}]
        ELSE IssueWeather(r)

\* Lines 195-202 up to the first await, for a request arriving at time clock.
PostEnter(body, clock) ==
    LET r == Entered("post", 0, body)
        check == DateCheck(body, clock)
    IN  IF MissingWhere(body)
            THEN [r EXCEPT !.pc = "done",
                           !.resp = ErrorResp(400, "Location or coordinates required.")]
        ELSE IF ~check.valid
            THEN [r EXCEPT !.pc = "done", !.resp = ErrorResp(400, check.error)]
        ELSE IF GeoCall(body) # "none"
            THEN [r EXCEPT !.pc = "geo", !.calls = {GeoUrl(body)}]
        ELSE IssueWeather(r)

\* A POST is taken while the ids it and the POSTs before it may use are within MaxId.
PostReceive(body) ==
    /\ nextId + Len(inserts) + PostsInFlight <= MaxId
    /\ Admit(PostEnter(body, now))
    /\ UNCHANGED <<rows, nextId, inserts, now>>

\* PostGeoResume without the helpers' catch: a rejected geocoding call reaches
\* the handler's catch block.
MutPostGeoResume(r, outcome) ==
    LET b == r.body
        info == IF GeoCall(b) = "direct" THEN ForwardInfo(outcome)
                ELSE ReverseInfo(b.lat, b.lon, outcome)
    IN  IF outcome.kind = "rejected"
            THEN [r EXCEPT !.geo = outcome.kind, !.pc = "done",
                           !.resp = ErrorResp(500, "Failed to fetch weather data.")]
            ELSE IssueWeather([r EXCEPT !.geo = outcome.kind, !.info = info])

\* Lines 199-202: the geocoding call settles (a rejection is swallowed by the
\* helper's catch), then the weather calls are issued.
PostGeoResume(r, outcome) ==
    LET b == r.body
        info == IF GeoCall(b) = "direct" THEN ForwardInfo(outcome)
                ELSE ReverseInfo(b.lat, b.lon, outcome)
    IN  IssueWeather([r EXCEPT !.geo = outcome.kind, !.info = info])

GeoSettle(r, outcome) ==
    /\ r.kind = "post"
    /\ r.pc = "geo"
    /\ Resume(r, PostGeoResume(r, outcome))
    /\ UNCHANGED <<rows, nextId, inserts, now>>

\* PostCatch that never mirrors the provider's status and message.
MutPostCatch(err) == ErrorResp(500, "Failed to fetch weather data.")

\* Lines 210-211: the catch block of the POST handler.
PostCatch(err) ==
    IF err.response /\ err.data THEN ErrorResp(err.status, err.message)
    ELSE ErrorResp(500, "Failed to fetch weather data.")

\* Line 203, and the record as lines 204-206 leave it, stringified.
PostRecord(r, outcome) ==
    PostJson(outcome, r.info, SearchedLocation(r.body.location, r.body.lat, r.body.lon))

\* The parameters of the INSERT of line 207.
InsertOf(body, data) ==
    [location |-> SearchedLocation(body.location, body.lat, body.lon),
     date_from |-> OrNull(body.dateFrom), date_to |-> OrNull(body.dateTo),
     weather_data |-> data]

\* Lines 202-212: Promise.all settles; on success the record is built, the
\* INSERT is handed to db.run without a callback and the record is returned.
PostWeatherSettle(r, outcome) ==
    /\ r.kind = "post"
    /\ r.pc = "weather"
    /\ IF outcome.ok
         THEN /\ inserts' = Append(inserts, InsertOf(r.body, PostRecord(r, outcome)))
              /\ Resume(r, [r EXCEPT !.pc = "done", !.sql = "INSERT",
                                     !.data = PostRecord(r, outcome),
                                     !.resp = OkResp("", PostRecord(r, outcome))])
         ELSE /\ inserts' = inserts
              /\ Resume(r, [r EXCEPT !.pc = "done", !.err = outcome.err,
                                     !.resp = PostCatch(outcome.err)])
    /\ UNCHANGED <<rows, nextId, now>>

RemoveAt(seq, i) == SubSeq(seq, 1, i - 1) \o SubSeq(seq, i + 1, Len(seq))

\* The id of the inserted row (INTEGER PRIMARY KEY AUTOINCREMENT).
NewId == nextId

\* created_at TIMESTAMP DEFAULT CURRENT_TIMESTAMP
InsertedRow(stmt) ==
    Row(NewId, stmt.location, stmt.date_from, stmt.date_to, stmt.weather_data, now)

\* The store executes a pending INSERT, or fails it; nobody is told of a failure.
DbInsert(i, ok) ==
    /\ Quiet
    /\ i \in 1..Len(inserts)
    /\ inserts' = RemoveAt(inserts, i)
    /\ IF ok
         THEN /\ rows' = rows \cup {InsertedRow(inserts[i])}
              /\ nextId' = NewId + 1
         ELSE UNCHANGED <<rows, nextId>>
    /\ UNCHANGED <<inflight, now>>

-----------------------------------------------------------------------------
(* PUT /api/queries/:id *)

\* Lines 299-303 up to the await: `buildWeatherUrl({ location })`.
PutEnter(id, body, clock) ==
    LET b == Body(body.location, Undefined, Undefined, Undefined,
                  body.dateFrom, body.dateTo)
        r == Entered("put", id, b)
        check == DateCheck(b, clock)
    IN  IF ~Truthy(b.location)
            THEN [r EXCEPT !.pc = "done", !.resp = ErrorResp(400, "Location is required")]
        ELSE IF ~check.valid
            THEN [r EXCEPT !.pc = "done", !.resp = ErrorResp(400, check.error)]
        ELSE IssueWeather(r)

PutReceive(id, body) ==
    /\ Admit(PutEnter(id, body, now))
    /\ UNCHANGED <<rows, nextId, inserts, now>>

\* Lines 303-310: Promise.all settles; on success the UPDATE is handed to
\* db.run with the callback that answers, on a rejection the catch answers 500.
PutWeatherSettle(r, outcome) ==
    /\ r.kind = "put"
    /\ r.pc = "weather"
    /\ Resume(r, IF outcome.ok
                   THEN [r EXCEPT !.pc = "db", !.sql = "UPDATE", !.data = PutJson(outcome)]
                   ELSE [r EXCEPT !.pc = "done", !.err = outcome.err,
                                  !.resp = ErrorResp(500, "Failed to update weather data")])
    /\ UNCHANGED <<rows, nextId, inserts, now>>

\* UpdateRow as REPLACE INTO would write it: created_at takes its default anew.
MutUpdateRow(row, r) ==
    [row EXCEPT !.location = ToStr(r.body.location),
                !.date_from = OrNull(r.body.dateFrom),
                !.date_to = OrNull(r.body.dateTo),
                !.weather_data = r.data,
                !.created_at = now]

\* UPDATE weather_queries SET location, date_from, date_to, weather_data WHERE id
UpdateRow(row, r) ==
    [row EXCEPT !.location = ToStr(r.body.location),
                !.date_from = OrNull(r.body.dateFrom),
                !.date_to = OrNull(r.body.dateTo),
                !.weather_data = r.data]

\* The rows a statement's `WHERE id = ?` selects.
Selected(id) == {row \in rows : row.id = id}

\* UpdateAnswer without the `this.changes === 0` test.
MutUpdateAnswer(r, ok, changes) ==
    IF ~ok THEN ErrorResp(500, "Failed to update query")
    ELSE OkResp("Query updated successfully", r.data)

\* Lines 306-308: the callback of the UPDATE.
UpdateAnswer(r, ok, changes) ==
    IF ~ok THEN ErrorResp(500, "Failed to update query")
    ELSE IF changes = 0 THEN ErrorResp(404, "Query not found")
    ELSE OkResp("Query updated successfully", r.data)

\* Lines 305-309: the store executes the UPDATE, or fails it, and the callback answers.
DbUpdate(r, ok) ==
    /\ r.kind = "put"
    /\ r.pc = "db"
    /\ rows' = IF ok THEN (rows \ Selected(r.id)) \cup {UpdateRow(row, r) : row \in Selected(r.id)}
               ELSE rows
    /\ Resume(r, [r EXCEPT !.pc = "done",
                           !.resp = UpdateAnswer(r, ok, Cardinality(Selected(r.id)))])
    /\ UNCHANGED <<nextId, inserts, now>>

-----------------------------------------------------------------------------
(* DELETE /api/queries/:id *)

\* Line 334: the DELETE is handed to db.run.
DeleteReceive(id) ==
    /\ Admit([Entered("delete", id, NoBody) EXCEPT !.pc = "db", !.sql = "DELETE"])
    /\ UNCHANGED <<rows, nextId, inserts, now>>

\* Lines 335-337: the callback of the DELETE.
DeleteAnswer(ok, changes) ==
    IF ~ok THEN ErrorResp(500, "Failed to delete query")
    ELSE IF changes = 0 THEN ErrorResp(404, "Query not found")
    ELSE OkResp("Query deleted successfully", "")

\* DeleteRows with `WHERE id <= ?` for `WHERE id = ?`.
MutDeleteRows(id) == {row \in rows : row.id > id}

\* DELETE FROM weather_queries WHERE id = ?
DeleteRows(id) == rows \ Selected(id)

\* Lines 334-338: the store executes the DELETE, or fails it, and the callback answers.
DbDelete(r, ok) ==
    /\ r.kind = "delete"
    /\ r.pc = "db"
    /\ rows' = IF ok THEN DeleteRows(r.id) ELSE rows
    /\ Resume(r, [r EXCEPT !.pc = "done",
                           !.resp = DeleteAnswer(ok, Cardinality(Selected(r.id)))])
    /\ UNCHANGED <<nextId, inserts, now>>

-----------------------------------------------------------------------------
(* The environment *)

\* The response has been sent; the invocation is over.
Complete(r) ==
    /\ r.pc = "done"
    /\ inflight' = inflight (-) SetToBag({r})
    /\ UNCHANGED <<rows, nextId, inserts, now>>

\* A day passes.
Tick ==
    /\ Quiet
    /\ now < MaxNow
    /\ now' = now + 1
    /\ UNCHANGED <<rows, nextId, inserts, inflight>>

-----------------------------------------------------------------------------
(* Spec: concurrent requests against the store. *)

CorePostBodies ==
    {Body(Str("New York"), Undefined, Undefined, Undefined, Undefined, Undefined)}

CorePutBodies ==
    {Body(Str("Paris"), Undefined, Undefined, Undefined,
          Str("2024-01-01"), Str("2024-01-01")),
     NoBody}

CoreGeoOutcomes == {o \in GeoOutcomes : o.kind = "places" /\ o.place.name = "New York"}

CoreWeatherOutcomes ==
    {o \in WeatherOutcomes :
        \/ o.ok /\ o.current.hasCoord
        \/ ~o.ok /\ o.err.status = 401 /\ o.by = "forecast"}

Next ==
    \/ \E body \in CorePostBodies : PostReceive(body)
    \/ \E r \in Requests, o \in CoreGeoOutcomes : GeoSettle(r, o)
    \/ \E r \in Requests, o \in CoreWeatherOutcomes : PostWeatherSettle(r, o)
    \/ \E i \in 1..MaxId, ok \in BOOLEAN : DbInsert(i, ok)
    \/ \E id \in Ids, body \in CorePutBodies : PutReceive(id, body)
    \/ \E r \in Requests, o \in CoreWeatherOutcomes : PutWeatherSettle(r, o)
    \/ \E r \in Requests, ok \in BOOLEAN : DbUpdate(r, ok)
    \/ \E id \in Ids : DeleteReceive(id)
    \/ \E r \in Requests, ok \in BOOLEAN : DbDelete(r, ok)
    \/ \E r \in Requests : Complete(r)
    \/ Tick

Spec == Init /\ [][Next]_vars

-----------------------------------------------------------------------------
(* SpecInput: one request at a time against the empty store, over the whole *)
(* input domain of the POST and PUT handlers.                               *)

Locations == {Undefined, Null, Str(""), Str("New York")}
Lats == {Undefined, Num(0), Num(48)}
Lons == {Undefined, Num(0), Num(2)}
Types == {Undefined, Str("zip")}
Dates == {Undefined, Str("soon"), Str("2024-01-01"), Str("2024-01-02"), Str("2024-01-03")}

PostBodies ==
    {Body(location, lat, lon, type, dateFrom, dateTo) :
        location \in Locations, lat \in Lats, lon \in Lons, type \in Types,
        dateFrom \in Dates, dateTo \in Dates}

PutBodies ==
    {Body(location, Undefined, Undefined, Undefined, dateFrom, dateTo) :
        location \in Locations, dateFrom \in Dates, dateTo \in Dates}

Fresh == rows = {} /\ inserts = <<>> /\ inflight = EmptyBag

NextInput ==
    \/ Fresh /\ \E body \in PostBodies : PostReceive(body)
    \/ \E r \in Requests, o \in GeoOutcomes : GeoSettle(r, o)
    \/ \E r \in Requests, o \in WeatherOutcomes : PostWeatherSettle(r, o)
    \/ \E i \in 1..MaxId, ok \in BOOLEAN : DbInsert(i, ok)
    \/ Fresh /\ \E id \in Ids, body \in PutBodies : PutReceive(id, body)
    \/ \E r \in Requests, o \in WeatherOutcomes : PutWeatherSettle(r, o)
    \/ \E r \in Requests, ok \in BOOLEAN : DbUpdate(r, ok)
    \/ \E r \in Requests : Complete(r)
    \/ Tick

SpecInput == Init /\ [][NextInput]_vars

-----------------------------------------------------------------------------
(* The claims *)

\* The invocations answered by the step: an answer is in flight after it and
\* none was before it.
AnsweredNow == {r \in BagToSet(inflight') : Quiet /\ r.pc = "done"}

\* The invocation that arrived by the step, if one did.
ArrivedNow ==
    {r \in BagToSet(inflight') :
        /\ BagCardinality(inflight') = BagCardinality(inflight) + 1
        /\ CopiesIn(r, inflight') = CopiesIn(r, inflight) + 1}

StoredIds == {row.id : row \in rows}

\* The body names no location: the field is absent or the empty text.
NoLocation(body) == body.location \in {Undefined, Null, Str("")}

\* The body names both coordinates.
BothCoordinates(body) == body.lat # Undefined /\ body.lon # Undefined

\* C1: every POST /api/weather whose body has no location and lacks lat or lon
\* (or both) is answered 400 with an error, whatever type, dateFrom and dateTo are.
C1_NoWhereIs400 ==
    \A r \in Requests :
        (r.kind = "post" /\ NoLocation(r.body) /\ ~BothCoordinates(r.body))
            => r.pc = "done" /\ r.resp.status = 400 /\ r.resp.error # ""

C1_Witness ==
    \E r \in Requests :
        /\ r.kind = "post" /\ r.pc = "done" /\ r.resp.status = 400
        /\ NoLocation(r.body) /\ r.body.lat = Num(0) /\ r.body.lon = Undefined
        /\ r.body.type = Str("zip")
        /\ r.body.dateFrom = Str("2024-01-01") /\ r.body.dateTo = Str("2024-01-01")

\* The range a request supplies is acceptable at time clock: both dates present
\* and valid, dateFrom not after dateTo, dateTo not after clock.
GoodRange(body, clock) ==
    /\ Truthy(body.dateFrom) /\ Truthy(body.dateTo)
    /\ ~DateParse(body.dateFrom).nan /\ ~DateParse(body.dateTo).nan
    /\ DateParse(body.dateFrom).time <= DateParse(body.dateTo).time
    /\ DateParse(body.dateTo).time <= clock

SuppliesADate(body) == body.dateFrom # Undefined \/ body.dateTo # Undefined

WhereGiven(r) ==
    IF r.kind = "post" THEN ~(NoLocation(r.body) /\ ~BothCoordinates(r.body))
    ELSE ~NoLocation(r.body)

\* C2: a POST or PUT that supplies a date range (either date) passes validation
\* exactly when both dates are present and valid, dateFrom is not after dateTo
\* and dateTo is not after the call time; every other case is answered 400.
C2_RangeValidatedWheneverSupplied ==
    [][\A r \in ArrivedNow :
          (r.kind \in {"post", "put"} /\ WhereGiven(r) /\ SuppliesADate(r.body))
              => IF GoodRange(r.body, now)
                     THEN r.pc # "done"
                     ELSE r.pc = "done" /\ r.resp.status = 400]_vars

\* C3: a POST or PUT answered 400 by validation (not by a provider's own 400)
\* has issued no upstream call and no statement, and the store is untouched.
C3_RejectedBeforeAnyCall ==
    \A r \in Requests :
        (r.kind \in {"post", "put"} /\ r.pc = "done" /\ r.resp.status = 400
            /\ ~r.err.rejected)
            => r.calls = {} /\ r.sql = "" /\ rows = {} /\ inserts = <<>>

C3_Witness ==
    \E r \in Requests :
        /\ r.kind = "post" /\ r.pc = "done" /\ r.resp.status = 400
        /\ r.resp.error = "Start date must be before end date"
        /\ r.body.location = Str("New York") /\ r.calls = {}

\* C4: a POST that passed validation queries by coordinates when lat and lon are
\* both given (0 included), else by postal code when type is "zip", else by the
\* URL-encoded location text.
C4_DispatchByGivenCoordinates ==
    \A r \in Requests :
        (r.kind = "post" /\ r.urls # NoUrls)
            => r.urls =
                 IF BothCoordinates(r.body)
                     THEN Urls(CoordQuery(r.body.lat, r.body.lon))
                 ELSE IF r.body.type = Str("zip")
                     THEN Urls("zip=" \o ToStr(r.body.location))
                 ELSE Urls("q=" \o EncodeURIComponent(r.body.location))

\* C5: a POST one of whose weather calls failed is answered with the provider's
\* status and message when the provider sent them, else with the generic 500,
\* and no INSERT is issued and no row inserted.
C5_WeatherFailureFailsRequest ==
    \A r \in Requests :
        (r.kind = "post" /\ r.err.rejected)
            => /\ r.pc = "done"
               /\ IF r.err.response /\ r.err.data
                      THEN r.resp.status = r.err.status /\ r.resp.error = r.err.message
                      ELSE r.resp.status = 500
                             /\ r.resp.error = "Failed to fetch weather data."
               /\ r.resp.data = ""
               /\ r.sql = "" /\ inserts = <<>> /\ rows = {}

C5_Witness ==
    \E r \in Requests :
        /\ r.kind = "post" /\ r.err.rejected /\ r.resp.status = 401
        /\ r.resp.error = "Invalid API key" /\ rows = {}

\* C6: a geocoding call that fails or finds nothing never fails the POST: the
\* weather calls are still issued, and when both succeed the answer is 200 with
\* the record, which has neither enhancedLocation nor displayName.
C6_GeocodingIsBestEffort ==
    \A r \in Requests :
        (r.kind = "post" /\ r.geo \in {"empty", "rejected"})
            => /\ r.pc \in {"weather", "done"}
               /\ r.urls # NoUrls
               /\ (r.pc = "done" /\ ~r.err.rejected)
                    => /\ r.resp.status = 200
                       /\ \E o \in {w \in WeatherOutcomes : w.ok} :
                            r.resp.data =
                              PostJson(o, NoInfo,
                                SearchedLocation(r.body.location, r.body.lat, r.body.lon))

C6_Witness ==
    \E r \in Requests :
        /\ r.kind = "post" /\ r.geo = "rejected" /\ r.pc = "done"
        /\ r.resp.status = 200 /\ r.body.lat = Num(48)

\* C7: every POST whose two weather calls succeed is answered 200 with the
\* record, and a row with location = searchedLocation and weatherData = the
\* returned record is persisted: its INSERT is issued, and once the store is
\* done with that INSERT the row is in the table.
C7_FetchedRecordPersisted ==
    /\ [](\A r \in Requests :
            (r.kind = "post" /\ r.pc = "done" /\ ~r.err.rejected /\ r.sql = "INSERT")
                => /\ r.resp.status = 200
                   /\ \E i \in 1..Len(inserts) :
                        /\ inserts[i].weather_data = r.resp.data
                        /\ inserts[i].location =
                             SearchedLocation(r.body.location, r.body.lat, r.body.lon))
    /\ [][\A i \in 1..Len(inserts) :
            (Len(inserts') < Len(inserts) /\ inserts' = RemoveAt(inserts, i))
                => \E row \in rows' \ rows :
                     /\ row.location = inserts[i].location
                     /\ row.weather_data = inserts[i].weather_data]_vars

\* C8 as stated: a PUT on an id that is not in the store is answered 404 and
\* leaves the store as it is.
C8_UnknownIdIs404 ==
    [][\A r \in AnsweredNow :
          (r.kind = "put" /\ r.id \notin StoredIds)
              => r.resp.status = 404 /\ rows' = rows]_vars

\* C8 as amended: a PUT on an id that is not in the store leaves every row as
\* it is, creates none and is never answered 200; it is answered 404 when its
\* UPDATE ran without a store error, 400 when its body failed validation and
\* 500 when a weather call or the store failed.
C8_UnknownIdNeverUpdates ==
    [][\A r \in AnsweredNow :
          (r.kind = "put" /\ r.id \notin StoredIds)
              => /\ rows' = rows
                 /\ r.resp.status \in {400, 404, 500}
                 /\ r.resp.status = 400 <=> r.sql = "" /\ ~r.err.rejected
                 /\ r.resp.status = 404
                      <=> r.sql = "UPDATE" /\ r.resp.error # "Failed to update query"]_vars

C8_Witness ==
    \E r \in Requests :
        /\ r.kind = "put" /\ r.pc = "done" /\ r.resp.status = 404
        /\ r.id \notin StoredIds /\ r.id < nextId /\ rows # {}

\* C9 as stated: a DELETE on an unknown id is answered 404 and changes nothing;
\* on a known id it is answered 200 and removes exactly the row with that id.
C9_DeleteRemovesExactlyTheRow ==
    [][\A r \in AnsweredNow :
          r.kind = "delete"
              => IF r.id \notin StoredIds
                     THEN r.resp.status = 404 /\ rows' = rows
                     ELSE /\ r.resp.status = 200
                          /\ rows' = {row \in rows : row.id # r.id}
                          /\ Cardinality(rows') = Cardinality(rows) - 1]_vars

\* C9 as amended: unless the store fails the statement (then the answer is 500
\* and nothing changes), a DELETE on an unknown id is answered 404 and changes
\* nothing, and on a known id it is answered 200 and removes exactly that row.
C9_DeleteRemovesExactlyTheRowUnlessStoreFails ==
    [][\A r \in AnsweredNow :
          r.kind = "delete"
              => IF r.resp.status = 500
                     THEN r.resp.error = "Failed to delete query" /\ rows' = rows
                 ELSE IF r.id \notin StoredIds
                     THEN r.resp.status = 404 /\ rows' = rows
                 ELSE /\ r.resp.status = 200
                      /\ rows' = {row \in rows : row.id # r.id}
                      /\ Cardinality(rows') = Cardinality(rows) - 1]_vars

C9_Witness ==
    \E r \in Requests :
        /\ r.kind = "delete" /\ r.pc = "done" /\ r.resp.status = 200
        /\ r.id \notin StoredIds /\ rows # {}

\* C10: no two rows share an id; a row keeps its id and created_at for as long
\* as it is stored; an answered PUT changes at most location, date_from,
\* date_to and weather_data of the row with its id, and no other row.
C10_IdsUniqueAndStable ==
    /\ [](\A a, b \in rows : a.id = b.id => a = b)
    /\ [][/\ \A a \in rows, b \in rows' : a.id = b.id => a.created_at = b.created_at
          /\ \A r \in AnsweredNow :
                r.kind = "put"
                    => /\ {row.id : row \in rows'} = StoredIds
                       /\ \A a \in rows : a.id # r.id => a \in rows']_vars

C10_Witness ==
    \E r \in Requests :
        /\ r.kind = "put" /\ r.pc = "done" /\ r.resp.status = 200
        /\ Cardinality(rows) = 2
        /\ \E row \in rows :
             row.id = r.id /\ row.location = "Paris" /\ row.created_at < now

====
